---- MODULE Spec2Model ----
(***************************************************************************)
(* Storigrad server: the intent-routing pipeline (app/service.py,          *)
(* app/nn), the story and turn-log store (app/story.py, app/models.py),    *)
(* turn advancement (app/storyteller_mini.py), the endpoints of            *)
(* app/main.py, the credentials of app/auth.py and the story-config        *)
(* generation of app/field_assistant.py.                                   *)
(*                                                                         *)
(* Text is a sequence of characters.  A Cyrillic letter is written as its  *)
(* transliteration with the prefix "c_" (lower case) or "C_" (upper case). *)
(* A module's reply text is a sequence holding one atom that names it.     *)
(* Scores are in tenths: 1.0 is 10, 0.8 is 8, the threshold 0.5 is 5.      *)
(*                                                                         *)
(* The tables carry every column the handlers read or write: Story.genre   *)
(* (main.py, story.py), StoryTurn.yc_previous_response_id (story.py) and   *)
(* StoryTurn.idx, user_text, model_text (storyteller_mini.py) beside the   *)
(* columns models.py declares.                                             *)
(***************************************************************************)
EXTENDS Integers, Sequences, FiniteSets, TLC

VARIABLES
    message,      \* pipeline: the text of the last InferenceRequest
    reply,        \* pipeline: the reply Pipeline.run returned
    trace,        \* pipeline: the trace Pipeline.run returned
    calls,        \* pipeline: the score/run calls Pipeline.run made, in order
    users,        \* table users: id -> row
    stories,      \* table stories: id -> row
    story_turns,  \* table story_turns: id -> row
    story_seq,    \* the last id the stories table issued
    turn_seq,     \* the last id the story_turns table issued
    appended,     \* history: per story id, the turns passed to add_turn, in call order
    resp,         \* the outcome of the last call or request
    inflight,     \* the requests that have started and not yet committed or failed
    images,       \* object storage: the keys of the stored images
    cred          \* the Authorization header of the request being served

pvars == <<message, reply, trace, calls>>

dbvars == <<users, stories, story_turns, story_seq, turn_seq, appended, resp>>

\* the state outside the database: requests underway, their credential, and the
\* object storage
xvars == <<inflight, images, cred>>

vars == <<message, reply, trace, calls,
          users, stories, story_turns, story_seq, turn_seq, appended, resp,
          inflight, images, cred>>

(***************************************************************************)
(* Bounds                                                                  *)
(***************************************************************************)
MaxWords == 2

\* story ids the stories table issues
MaxStories == 3

\* turns persisted over all stories
MaxTurns == 2

\* length of one story's turn array in the turn-log specification
MaxLogLen == 3

\* requests underway at the same time
MaxInflight == 2

\* images in the object storage
MaxImages == 2

(***************************************************************************)
(* Text                                                                    *)
(***************************************************************************)
UpperToLower ==
    [H |-> "h", I |-> "i", G |-> "g", O |-> "o", A |-> "a", C |-> "c",
     C_M |-> "c_m", C_I |-> "c_i", C_R |-> "c_r"]

LowerChar(ch) == IF ch \in DOMAIN UpperToLower THEN UpperToLower[ch] ELSE ch

lower(txt) == [i \in 1..Len(txt) |-> LowerChar(txt[i])]

\* w in txt: w is a contiguous part of txt
Contains(txt, w) ==
    \E i \in 0..(Len(txt) - Len(w)) :
        \A j \in 1..Len(w) : txt[i + j] = w[j]

RECURSIVE Join(_, _)
Join(sep, parts) ==
    IF parts = <<>> THEN <<>>
    ELSE IF Len(parts) = 1 THEN parts[1]
    ELSE parts[1] \o sep \o Join(sep, Tail(parts))

\* filter(None, xs): the non-empty strings of xs, in order
FilterNone(xs) == SelectSeq(xs, LAMBDA x : x # <<>>)

(***************************************************************************)
(* app/nn: the modules                                                     *)
(***************************************************************************)
Thr == 5

GreetingWords ==
    << <<"c_p", "c_r", "c_i", "c_v", "c_e", "c_t">>,
       <<"c_z", "c_d", "c_r", "c_a", "c_v">>,
       <<"h", "e", "l", "l", "o">>,
       <<"h", "i">> >>

LorePatterns ==
    << <<"c_m", "c_i", "c_r">>,
       <<"c_l", "c_o", "c_k", "c_a", "c_ts", "c_i">>,
       <<"c_p", "c_e", "c_r", "c_s", "c_o", "c_n", "c_a", "c_zh">>,
       <<"c_s", "c_e", "c_t", "c_t", "c_i", "c_n", "c_g">> >>

ActionWords ==
    << <<"c_i", "c_d", "c_t", "c_i">>,
       <<"c_a", "c_t", "c_a", "c_k">>,
       <<"c_v", "c_z", "c_ya", "c_t", "c_soft">>,
       <<"c_o", "c_s", "c_m", "c_o", "c_t", "c_r", "c_e", "c_t", "c_soft">>,
       <<"o", "p", "e", "n">>,
       <<"g", "o">> >>

AnyIn(words, txt) == \E k \in 1..Len(words) : Contains(txt, words[k])

GreetingScore(msg) == IF AnyIn(GreetingWords, lower(msg)) THEN 10 ELSE 0

LoreScore(msg) == IF AnyIn(LorePatterns, lower(msg)) THEN 10 ELSE 0

ActionScore(msg) == IF AnyIn(ActionWords, lower(msg)) THEN 8 ELSE 0

FallbackScore(msg) == 10

score(m, msg) ==
    CASE m = "greeting" -> GreetingScore(msg)
      [] m = "lore"     -> LoreScore(msg)
      [] m = "action"   -> ActionScore(msg)
      [] m = "fallback" -> FallbackScore(msg)

run(m, msg) ==
    CASE m = "greeting" -> <<"GREETING_TEXT">>
      [] m = "lore"     -> <<"LORE_TEXT">>
      [] m = "action"   -> <<"ACTION_TEXT">>
      [] m = "fallback" -> <<"FALLBACK_TEXT">>

decideStrict(m, msg) == LET s == score(m, msg) IN [ok |-> s >= 2 * Thr - 1, s |-> s]

\* Module.decide: (s >= thr, s)
decide(m, msg) == LET s == score(m, msg) IN [ok |-> s >= Thr, s |-> s]

default_modules == <<"greeting", "lore", "action", "fallback">>

(***************************************************************************)
(* app/service.py: Pipeline.run                                            *)
(***************************************************************************)
TraceItem(m, ok, out, s) == [module |-> m, accepted |-> ok, output |-> out, score |-> s]

\* "if ok and m.name != 'fallback'": the module's output is taken
Accepted(m, ok) == ok /\ m # "fallback"

BreakNever(m, ok) == FALSE

\* "break  # one-shot routing": the loop ends after the first taken output
Break(m, ok) == Accepted(m, ok)

\* the for loop from module i on; st holds trace, outputs and the calls made so far
RECURSIVE PipelineLoop(_, _, _, _)
PipelineLoop(modules, msg, i, st) ==
    IF i > Len(modules) THEN st
    ELSE
        LET m   == modules[i]
            d   == decide(m, msg)
            out == IF d.ok THEN run(m, msg) ELSE <<>>
            cs  == st.calls \o <<[fn |-> "score", module |-> m]>>
                     \o (IF d.ok THEN <<[fn |-> "run", module |-> m]>> ELSE <<>>)
            nx  == [trace   |-> Append(st.trace, TraceItem(m, d.ok, out, d.s)),
                    outputs |-> IF Accepted(m, d.ok) THEN Append(st.outputs, out)
                                ELSE st.outputs,
                    calls   |-> cs]
        IN  IF Break(m, d.ok) THEN nx ELSE PipelineLoop(modules, msg, i + 1, nx)

FallbackOutputs(tr) ==
    LET fb == SelectSeq(tr, LAMBDA t : t.module = "fallback")
    IN  [k \in 1..Len(fb) |-> fb[k].output]

PipelineRun(modules, msg) ==
    LET st      == PipelineLoop(modules, msg, 1,
                                [trace |-> <<>>, outputs |-> <<>>, calls |-> <<>>])
        outputs == IF st.outputs = <<>> THEN FallbackOutputs(st.trace) ELSE st.outputs
    IN  [reply |-> Join(<<"\n">>, FilterNone(outputs)),
         trace |-> st.trace,
         calls |-> st.calls]

(***************************************************************************)
(* app/models.py: the rows                                                 *)
(***************************************************************************)
\* SQL NULL in an integer column (Story.owner_id is nullable), and "no row"
NoId == 0

\* Python None where a string is expected
NoText == "None"

\* the users registered before the first request
Users == {1, 2}

\* Python None where the text of an account field is expected
NoSeq == <<"None">>

\* passwords: "secret1", "wrong12", and one of fewer than 6 characters
Secret1 == <<"s", "e", "c", "r", "e", "t", "1">>

Wrong12 == <<"w", "r", "o", "n", "g", "1", "2">>

ShortPw == <<"a", "b", "c">>

\* a stored credential: scheme "bcrypt" stands for the "$2..." strings passlib
\* writes, to which the salt drawn at hashing belongs; scheme "sha256" stands for
\* the 64 hex digits of the legacy digest, which has no salt
PasswordHash(scheme, salt, pw) == [scheme |-> scheme, salt |-> salt, pw |-> pw]

\* models.User(email=, username=, password_hash=, plan="Free", stories_count=)
User(email, username, password_hash, stories_count) ==
    [email |-> email, username |-> username, password_hash |-> password_hash,
     stories_count |-> stories_count]

\* the row of user u before the first request, owning n stories
SeedUser(u, n) ==
    User(IF u = 1 THEN <<"a">> ELSE <<"b">>, <<"n", "a", "m", "e">>,
         PasswordHash("bcrypt", 1, Secret1), n)

StoryIds == 1..MaxStories

CfgA == [story_description |-> "world A", start_phrase |-> "opening"]

CfgB == [story_description |-> "world B", start_phrase |-> ""]

\* Python None where a config document is expected
NoConfig == [story_description |-> NoText, start_phrase |-> NoText]

\* models.Story(owner_id=, title=, genre=, config=)
Story(owner_id, title, genre, config) ==
    [owner_id |-> owner_id, title |-> title, genre |-> genre, config |-> config]

\* models.StoryTurn(story_id=, turns=[], yc_previous_response_id=): one row per story
StoryTurnArrayRow(story_id, token) ==
    [story_id |-> story_id, turns |-> <<>>, yc_previous_response_id |-> token,
     idx |-> NoId, user_text |-> NoText, model_text |-> NoText]

\* models.StoryTurn(story_id=, idx=, user_text=, model_text=): one row per turn;
\* turns takes the column default, list()
StoryTurnStepRow(story_id, idx, user_text, model_text) ==
    [story_id |-> story_id, turns |-> <<>>, yc_previous_response_id |-> NoText,
     idx |-> idx, user_text |-> user_text, model_text |-> model_text]

Turn(user_text, model_text) == [user_text |-> user_text, model_text |-> model_text]

\* Python truth of an optional string
Truthy(x) == x # NoText /\ x # ""

Min(S) == CHOOSE x \in S : \A y \in S : x <= y

Max(S) == CHOOSE x \in S : \A y \in S : x >= y

(***************************************************************************)
(* app/story.py                                                            *)
(***************************************************************************)
\* filter(Story.id == story_id, or_(Story.owner_id == owner_id, Story.owner_id IS NULL)).first()
get_story(tbl, story_id, owner_id) ==
    IF /\ story_id \in DOMAIN tbl
       /\ (tbl[story_id].owner_id = owner_id \/ tbl[story_id].owner_id = NoId)
    THEN story_id
    ELSE NoId

\* filter(StoryTurn.story_id == story_id).order_by(StoryTurn.id.asc()).first()
FirstTurnRow(tbl, story_id) ==
    LET ids == {r \in DOMAIN tbl : tbl[r].story_id = story_id}
    IN  IF ids = {} THEN NoId ELSE Min(ids)

\* add_turn: the table, the id sequence and the row after the commit
add_turn(tbl, seq, story_id, user_text, model_text, yc_previous_response_id) ==
    LET found == FirstTurnRow(tbl, story_id)
        rid   == IF found = NoId THEN seq + 1 ELSE found
        base  == IF found = NoId
                 THEN tbl @@ (rid :> StoryTurnArrayRow(story_id, yc_previous_response_id))
                 ELSE tbl
        current_turns == Append(base[rid].turns, Turn(user_text, model_text))
        token == IF Truthy(yc_previous_response_id) THEN yc_previous_response_id
                 ELSE base[rid].yc_previous_response_id
    IN  [story_turns |-> [base EXCEPT ![rid].turns = current_turns,
                                      ![rid].yc_previous_response_id = token],
         turn_seq    |-> IF found = NoId THEN seq + 1 ELSE seq,
         id          |-> rid]

\* Python xs[start:]
SliceFrom(xs, start) ==
    LET n  == Len(xs)
        lo == IF start < 0 THEN (IF start + n < 0 THEN 0 ELSE start + n)
              ELSE (IF start > n THEN n ELSE start)
    IN  SubSeq(xs, lo + 1, n)

\* get_turns
get_turns(tbl, story_id, limit) ==
    LET rid == FirstTurnRow(tbl, story_id)
    IN  IF rid = NoId \/ tbl[rid].turns = <<>> THEN <<>>
        ELSE LET all_turns == tbl[rid].turns
             IN  IF Len(all_turns) <= limit THEN all_turns
                 ELSE SliceFrom(all_turns, 0 - limit)

\* get_turns' default limit
DefaultLimit == 50

\* update_user: "if len(new_password) < 6"
MinPasswordLen == 6

(***************************************************************************)
(* Outcomes                                                                *)
(***************************************************************************)
\* no Authorization header, and no token in an answer
NoToken == [user_id |-> NoId, kind |-> "none"]

\* what a call or request answered; the fields a handler does not set keep these values
NoResp ==
    [op |-> "none", user |-> NoId, story_id |-> NoId, status |-> NoId,
     error |-> NoText, id |-> NoId, title |-> NoText, config |-> NoConfig,
     turns |-> <<>>, text |-> NoText, location |-> NoId, limit |-> NoId,
     input |-> NoText,
     provider |-> <<>>,
     token |-> NoToken,
     genre |-> <<"None">>, prompt |-> <<"None">>]

\* a request underway: what it was sent with and what it has read so far; the
\* fields an endpoint does not use keep these values
NoReq ==
    [op |-> "none", user |-> NoId, story_id |-> NoId, stories_count |-> NoId,
     row |-> NoId, turns |-> <<>>, user_text |-> NoText, model_text |-> NoText,
     token |-> NoText, email |-> NoSeq, username |-> NoSeq, password |-> NoSeq,
     mode |-> NoText, last_turn |-> NoId, messages |-> <<>>, next_idx |-> NoId]

\* the workers that serve requests side by side
Slots == 1..MaxInflight

NoRequests == [k \in Slots |-> NoReq]

\* a request that starts is served by the first idle worker
FirstFree(reqs, k) == reqs[k] = NoReq /\ \A j \in 1..(k - 1) : reqs[j] # NoReq

\* turns persisted over all stories: array entries and per-turn rows
RECURSIVE TotalTurns(_)
TotalTurns(tbl) ==
    IF DOMAIN tbl = {} THEN 0
    ELSE LET r == Max(DOMAIN tbl)
             rest == [x \in DOMAIN tbl \ {r} |-> tbl[x]]
         IN  Len(tbl[r].turns) + (IF tbl[r].idx # NoId THEN 1 ELSE 0) + TotalTurns(rest)

EmptyTable == [x \in {} |-> NoId]

\* a database holding one template and no user story
InitDB ==
    /\ users = [u \in Users |-> SeedUser(u, 0)]
    /\ stories = (1 :> Story(NoId, "t1", "Horror", CfgA))
    /\ story_seq = 1
    /\ story_turns = EmptyTable
    /\ turn_seq = 0
    /\ appended = [s \in StoryIds |-> <<>>]
    /\ resp = NoResp
    /\ inflight = NoRequests
    /\ images = {}
    /\ cred = NoToken

(***************************************************************************)
(* The turn log alone: add_turn and get_turns called on stories 1 and 2    *)
(***************************************************************************)
UserTexts == {"u1", "u2"}

Tokens == {NoText, "", "tok1", "tok2"}

AddTurnCall(sid, ut, mt, tok) ==
    LET r == add_turn(story_turns, turn_seq, sid, ut, mt, tok)
    IN  /\ Len(appended[sid]) < MaxLogLen
        /\ story_turns' = r.story_turns
        /\ turn_seq' = r.turn_seq
        /\ appended' = [appended EXCEPT ![sid] = Append(@, Turn(ut, mt))]
        /\ resp' = [NoResp EXCEPT !.op = "add_turn", !.story_id = sid, !.id = r.id,
                                  !.turns = r.story_turns[r.id].turns]
        /\ UNCHANGED <<users, stories, story_seq>>
        /\ UNCHANGED pvars
        /\ UNCHANGED xvars

GetTurnsCall(sid, limit) ==
    /\ resp' = [NoResp EXCEPT !.op = "get_turns", !.story_id = sid, !.limit = limit,
                              !.turns = get_turns(story_turns, sid, limit)]
    /\ UNCHANGED <<users, stories, story_seq, story_turns, turn_seq, appended>>
    /\ UNCHANGED pvars
    /\ UNCHANGED xvars

(***************************************************************************)
(* app/story.py: add_turn when calls run side by side                      *)
(***************************************************************************)
\* add_turn up to "current_turns = list(row.turns or [])": the row the query
\* found and the array read from it; a row that is missing is created in the
\* call's own transaction and seen by no other call before the commit
AddTurnBegin(k, sid, ut, mt, tok) ==
    LET found == FirstTurnRow(story_turns, sid)
    IN  /\ FirstFree(inflight, k)
        /\ Len(appended[sid]) +
               Cardinality({j \in Slots : inflight[j].op = "add_turn"
                                          /\ inflight[j].story_id = sid}) < MaxLogLen
        /\ inflight' = [inflight EXCEPT ![k] =
                           [NoReq EXCEPT !.op = "add_turn", !.story_id = sid,
                                         !.row = found,
                                         !.turns = IF found = NoId THEN <<>>
                                                   ELSE story_turns[found].turns,
                                         !.user_text = ut, !.model_text = mt,
                                         !.token = tok]]
        /\ UNCHANGED <<users, stories, story_turns, story_seq, turn_seq, appended, resp,
                       images, cred>>
        /\ UNCHANGED pvars

\* add_turn that sets the token when it inserts the row and never afterwards
AddTurnCommitKeepToken(k) ==
    LET req == inflight[k]
        rid == IF req.row = NoId THEN turn_seq + 1 ELSE req.row
        current_turns == Append(req.turns, Turn(req.user_text, req.model_text))
        base == IF req.row = NoId
                THEN story_turns @@ (rid :> StoryTurnArrayRow(req.story_id, req.token))
                ELSE story_turns
    IN  /\ req.op = "add_turn"
        /\ inflight' = [inflight EXCEPT ![k] = NoReq]
        /\ story_turns' = [base EXCEPT ![rid].turns = current_turns]
        /\ turn_seq' = IF req.row = NoId THEN turn_seq + 1 ELSE turn_seq
        /\ appended' = [appended EXCEPT ![req.story_id] =
                           Append(@, Turn(req.user_text, req.model_text))]
        /\ resp' = [NoResp EXCEPT !.op = "add_turn", !.story_id = req.story_id,
                                  !.id = rid, !.turns = current_turns]
        /\ UNCHANGED <<users, stories, story_seq, images, cred>>
        /\ UNCHANGED pvars

\* add_turn from "row.turns = current_turns" to the commit: the array read at
\* the start, with the new turn at its end, is written to the row
AddTurnCommit(k) ==
    LET req == inflight[k]
        rid == IF req.row = NoId THEN turn_seq + 1 ELSE req.row
        current_turns == Append(req.turns, Turn(req.user_text, req.model_text))
        base == IF req.row = NoId
                THEN story_turns @@ (rid :> StoryTurnArrayRow(req.story_id, req.token))
                ELSE story_turns
        token == IF Truthy(req.token) THEN req.token
                 ELSE base[rid].yc_previous_response_id
    IN  /\ req.op = "add_turn"
        /\ inflight' = [inflight EXCEPT ![k] = NoReq]
        /\ story_turns' = [base EXCEPT ![rid].turns = current_turns,
                                       ![rid].yc_previous_response_id = token]
        /\ turn_seq' = IF req.row = NoId THEN turn_seq + 1 ELSE turn_seq
        /\ appended' = [appended EXCEPT ![req.story_id] =
                           Append(@, Turn(req.user_text, req.model_text))]
        /\ resp' = [NoResp EXCEPT !.op = "add_turn", !.story_id = req.story_id,
                                  !.id = rid, !.turns = current_turns]
        /\ UNCHANGED <<users, stories, story_seq, images, cred>>
        /\ UNCHANGED pvars

(***************************************************************************)
(* app/storyteller_mini.py: generate_story_step                            *)
(***************************************************************************)
\* the text returned when the provider call raises
Unavailable == "narrator unavailable"

OwnedOrTemplate(tbl, story_id, user_id) == get_story(tbl, story_id, user_id)

\* filter(Story.id == story_id, Story.owner_id == user_id).first()
OwnedStory(tbl, story_id, user_id) ==
    IF story_id \in DOMAIN tbl /\ tbl[story_id].owner_id = user_id
    THEN story_id
    ELSE NoId

\* step 5: the row of the new turn is added and committed
PersistStep(tbl, seq, story_id, user_input, story_text) ==
    LET idxs     == {tbl[r].idx : r \in {x \in DOMAIN tbl :
                                           tbl[x].story_id = story_id /\ tbl[x].idx # NoId}}
        last_idx == IF idxs = {} THEN NoId ELSE Max(idxs)
        next_idx == (IF last_idx = NoId THEN 0 ELSE last_idx) + 1
    IN  [story_turns |-> tbl @@ ((seq + 1) :>
                            StoryTurnStepRow(story_id, next_idx, user_input, story_text)),
         turn_seq    |-> seq + 1,
         text        |-> story_text]

OnProviderErrorPersist(tbl, seq, story_id, user_input) ==
    PersistStep(tbl, seq, story_id, user_input, Unavailable)

\* "except Exception": the error is printed and the fixed text returned
OnProviderError(tbl, seq, story_id, user_input) ==
    [story_turns |-> tbl, turn_seq |-> seq, text |-> Unavailable]

\* outcome is what client.chat.completions.create does: "error" when it raises,
\* else the generated text
generate_story_step(sts, tbl, seq, story_id, user_id, user_input, outcome) ==
    IF OwnedStory(sts, story_id, user_id) = NoId
    THEN [error |-> "ValueError", text |-> NoText, provider |-> <<>>,
          story_turns |-> tbl, turn_seq |-> seq]
    ELSE LET r == IF outcome = "error"
                  THEN OnProviderError(tbl, seq, story_id, user_input)
                  ELSE PersistStep(tbl, seq, story_id, user_input, outcome)
         IN  [error |-> NoText, text |-> r.text,
              provider |-> <<IF outcome = "error" THEN "error" ELSE "ok">>,
              story_turns |-> r.story_turns, turn_seq |-> r.turn_seq]

(***************************************************************************)
(* app/storyteller_mini.py: generate_story_step when calls run side by     *)
(* side; each call has its own session, and the provider call is a network *)
(* round trip during which other calls read and commit                     *)
(***************************************************************************)
\* step 3.1: the instruction put before the user's text; any mode that is not
\* one of the three named takes the default instruction
mode_prefix(mode) ==
    CASE mode = "dialogue"  -> "MODE: PLAYER LINE"
      [] mode = "narration" -> "MODE: EVENT DESCRIPTION"
      [] mode = "directive" -> "MODE: PLOT CHANGE"
      [] OTHER              -> "MODE: PLAYER LINE (DEFAULT)"

\* step 2: the rows filter(story_id).order_by(StoryTurn.idx.desc()).first() may
\* return, NoId when the story has no row. Where a NULL idx sorts is the
\* database's choice (first under PostgreSQL, last under SQLite), and so is the
\* row taken among equal idx
LastTurnRows(tbl, story_id) ==
    LET ids    == {r \in DOMAIN tbl : tbl[r].story_id = story_id}
        nulls  == {r \in ids : tbl[r].idx = NoId}
        valued == ids \ nulls
        top    == {r \in valued : \A x \in valued : tbl[x].idx <= tbl[r].idx}
    IN  IF ids = {} THEN {NoId}
        ELSE IF nulls = {} THEN top
        ELSE IF valued = {} THEN nulls
        ELSE nulls \cup top

\* steps 1, 3: the list sent to client.chat.completions.create; a content is
\* the sequence of the texts put into it
messages(tbl, config, last_turn, user_input, mode) ==
    LET story_description == IF config = NoConfig THEN "" ELSE config.story_description
        start_phrase   == IF Truthy(config.start_phrase) THEN config.start_phrase ELSE ""
        system_message == [role |-> "system",
                           content |-> <<"system_content", story_description>>]
        user_message   == [role |-> "user",
                           content |-> <<mode_prefix(mode), "CURRENT TURN", user_input>>]
        previous == IF last_turn # NoId
                    THEN (IF Truthy(tbl[last_turn].user_text)
                          THEN <<[role |-> "user", content |-> <<tbl[last_turn].user_text>>]>>
                          ELSE <<>>)
                         \o
                         (IF Truthy(tbl[last_turn].model_text)
                          THEN <<[role |-> "assistant",
                                  content |-> <<tbl[last_turn].model_text>>]>>
                          ELSE <<>>)
                    ELSE IF start_phrase # ""
                    THEN <<[role |-> "assistant", content |-> <<start_phrase>>]>>
                    ELSE <<>>
    IN  <<system_message>> \o previous \o <<user_message>>

\* generate_story_step up to the provider call: the story is looked up for its
\* owner, the last turn read and the request built
StepBegin(k, user, sid, user_input, mode) ==
    /\ FirstFree(inflight, k)
    /\ IF OwnedStory(stories, sid, user) = NoId
       THEN /\ resp' = [NoResp EXCEPT !.op = "story_step", !.user = user,
                                      !.story_id = sid, !.input = user_input,
                                      !.error = "ValueError"]
            /\ UNCHANGED inflight
       ELSE /\ TotalTurns(story_turns) +
                   Cardinality({j \in Slots : inflight[j] # NoReq}) < MaxTurns
            /\ \E last_turn \in LastTurnRows(story_turns, sid) :
                   inflight' = [inflight EXCEPT ![k] =
                       [NoReq EXCEPT !.op = "story_step", !.user = user,
                                     !.story_id = sid, !.user_text = user_input,
                                     !.mode = mode, !.last_turn = last_turn,
                                     !.messages = messages(story_turns, stories[sid].config,
                                                           last_turn, user_input, mode)]]
            /\ UNCHANGED resp
    /\ UNCHANGED <<users, stories, story_turns, story_seq, turn_seq, appended, images, cred>>
    /\ UNCHANGED pvars

\* step 4 and the query of step 5: the provider call raises and the fixed text
\* is returned, or it answers and max(idx) of the story's rows is read
StepReply(k, outcome) ==
    LET req      == inflight[k]
        idxs     == {story_turns[r].idx :
                        r \in {x \in DOMAIN story_turns :
                                  /\ story_turns[x].story_id = req.story_id
                                  /\ story_turns[x].idx # NoId}}
        last_idx == IF idxs = {} THEN NoId ELSE Max(idxs)
    IN  /\ req.op = "story_step"
        /\ req.next_idx = NoId
        /\ IF outcome = "error"
           THEN /\ inflight' = [inflight EXCEPT ![k] = NoReq]
                /\ resp' = [NoResp EXCEPT !.op = "story_step", !.user = req.user,
                                          !.story_id = req.story_id,
                                          !.input = req.user_text,
                                          !.text = Unavailable,
                                          !.provider = <<"error">>]
           ELSE /\ inflight' = [inflight EXCEPT ![k].model_text = outcome,
                                                ![k].next_idx =
                                                    (IF last_idx = NoId THEN 0
                                                     ELSE last_idx) + 1]
                /\ UNCHANGED resp
        /\ UNCHANGED <<users, stories, story_turns, story_seq, turn_seq, appended,
                       images, cred>>
        /\ UNCHANGED pvars

\* the rest of step 5: the row of the new turn is added and committed
StepCommit(k) ==
    LET req == inflight[k]
    IN  /\ req.op = "story_step"
        /\ req.next_idx # NoId
        /\ inflight' = [inflight EXCEPT ![k] = NoReq]
        /\ story_turns' = story_turns @@ ((turn_seq + 1) :>
                              StoryTurnStepRow(req.story_id, req.next_idx,
                                               req.user_text, req.model_text))
        /\ turn_seq' = turn_seq + 1
        /\ appended' = [appended EXCEPT ![req.story_id] =
                           Append(@, Turn(req.user_text, req.model_text))]
        /\ resp' = [NoResp EXCEPT !.op = "story_step", !.user = req.user,
                                  !.story_id = req.story_id, !.input = req.user_text,
                                  !.text = req.model_text, !.provider = <<"ok">>]
        /\ UNCHANGED <<users, stories, story_seq, images, cred>>
        /\ UNCHANGED pvars

(***************************************************************************)
(* app/main.py: the story endpoints, each called by an authenticated user  *)
(***************************************************************************)
\* User.stories_count + 1 for the current user
CountUp(tbl, user) == [tbl EXCEPT ![user].stories_count = @ + 1]

\* POST /stories
CreateStory(user, title, genre, config) ==
    LET id == story_seq + 1
    IN  /\ id <= MaxStories
        /\ stories' = stories @@ (id :> Story(user, title, genre, config))
        /\ story_seq' = id
        /\ users' = CountUp(users, user)
        /\ resp' = [NoResp EXCEPT !.op = "create_story", !.user = user,
                                  !.status = 200, !.id = id]
        /\ UNCHANGED <<story_turns, turn_seq, appended>>
        /\ UNCHANGED pvars
        /\ UNCHANGED xvars

\* PUT /stories/{story_id}; a title or config of None is left as it is
UpdateStory(user, sid, title, config) ==
    LET found == get_story(stories, sid, user)
    IN  /\ IF found = NoId
           THEN /\ resp' = [NoResp EXCEPT !.op = "update_story", !.user = user,
                                          !.story_id = sid, !.status = 403]
                /\ UNCHANGED stories
           ELSE LET row == [stories[sid] EXCEPT
                               !.title  = IF title # NoText THEN title ELSE @,
                               !.config = IF config # NoConfig THEN config ELSE @]
                IN  /\ stories' = [stories EXCEPT ![sid] = row]
                    /\ resp' = [NoResp EXCEPT !.op = "update_story", !.user = user,
                                              !.story_id = sid, !.status = 200,
                                              !.id = sid, !.title = row.title,
                                              !.config = row.config]
        /\ UNCHANGED <<users, story_turns, story_seq, turn_seq, appended>>
        /\ UNCHANGED pvars
        /\ UNCHANGED xvars

CopyDefaultGenre(src, user) == Story(user, src.title, "Fantasy", src.config)

\* the copy of a template: Story(owner_id=current_user.id, title=, genre=, config=)
CopyOf(src, user) == Story(user, src.title, src.genre, src.config)

\* GET /stories/{story_id}
GetStory(user, sid) ==
    /\ IF sid \notin DOMAIN stories
       THEN /\ resp' = [NoResp EXCEPT !.op = "get_story", !.user = user,
                                      !.story_id = sid, !.status = 404]
            /\ UNCHANGED <<stories, story_seq, users>>
       ELSE IF stories[sid].owner_id = NoId
       THEN LET copy_id == story_seq + 1
            IN  /\ copy_id <= MaxStories
                /\ stories' = stories @@ (copy_id :> CopyOf(stories[sid], user))
                /\ story_seq' = copy_id
                /\ users' = CountUp(users, user)
                /\ resp' = [NoResp EXCEPT !.op = "get_story", !.user = user,
                                          !.story_id = sid, !.status = 307,
                                          !.location = copy_id]
       ELSE /\ resp' = [NoResp EXCEPT !.op = "get_story", !.user = user,
                                      !.story_id = sid, !.status = 200, !.id = sid,
                                      !.title = stories[sid].title,
                                      !.config = stories[sid].config,
                                      !.turns = get_turns(story_turns, sid, DefaultLimit)]
            /\ UNCHANGED <<stories, story_seq, users>>
    /\ UNCHANGED <<story_turns, turn_seq, appended>>
    /\ UNCHANGED pvars
    /\ UNCHANGED xvars

\* POST /stories/{story_id}/turns
AddTurn(user, sid, user_text, model_text) ==
    /\ IF get_story(stories, sid, user) = NoId
       THEN /\ resp' = [NoResp EXCEPT !.op = "add_turn", !.user = user,
                                      !.story_id = sid, !.status = 404]
            /\ UNCHANGED <<story_turns, turn_seq, appended>>
       ELSE IF ~Truthy(user_text) \/ ~Truthy(model_text)
       THEN /\ resp' = [NoResp EXCEPT !.op = "add_turn", !.user = user,
                                      !.story_id = sid, !.status = 400]
            /\ UNCHANGED <<story_turns, turn_seq, appended>>
       ELSE LET r == add_turn(story_turns, turn_seq, sid, user_text, model_text, NoText)
            IN  /\ TotalTurns(r.story_turns) <= MaxTurns
                /\ story_turns' = r.story_turns
                /\ turn_seq' = r.turn_seq
                /\ appended' = [appended EXCEPT ![sid] = Append(@, Turn(user_text, model_text))]
                /\ resp' = [NoResp EXCEPT !.op = "add_turn", !.user = user,
                                          !.story_id = sid, !.status = 200, !.id = r.id,
                                          !.turns = r.story_turns[r.id].turns]
    /\ UNCHANGED <<users, stories, story_seq>>
    /\ UNCHANGED pvars
    /\ UNCHANGED xvars

\* a call generate_story_step(db, story_id, user_id, user_input)
StoryStep(user, sid, user_input, outcome) ==
    LET r == generate_story_step(stories, story_turns, turn_seq, sid, user, user_input, outcome)
    IN  /\ TotalTurns(r.story_turns) <= MaxTurns
        /\ story_turns' = r.story_turns
        /\ turn_seq' = r.turn_seq
        /\ resp' = [NoResp EXCEPT !.op = "story_step", !.user = user, !.story_id = sid,
                                  !.input = user_input,
                                  !.error = r.error, !.text = r.text,
                                  !.provider = r.provider]
        /\ UNCHANGED <<users, stories, story_seq, appended>>
        /\ UNCHANGED pvars
        /\ UNCHANGED xvars

\* the rows of tbl that keep: a table after DELETE of the others
Restrict(tbl, keep) == [x \in keep |-> tbl[x]]

\* DELETE /stories/{story_id}, the dependency: get_current_user loads the row of
\* the caller, stories_count with it, into the request's session
DeleteStoryAuth(k, user, sid) ==
    /\ FirstFree(inflight, k)
    /\ inflight' = [inflight EXCEPT ![k] =
                       [NoReq EXCEPT !.op = "delete_story", !.user = user,
                                     !.story_id = sid,
                                     !.stories_count = users[user].stories_count]]
    /\ UNCHANGED <<users, stories, story_turns, story_seq, turn_seq, appended, resp, images, cred>>
    /\ UNCHANGED pvars

DeleteKeepTurns(tbl, sid) == tbl

\* "db.query(models.StoryTurn).filter(StoryTurn.story_id == story_id).delete()"
DeleteTurnsOf(tbl, sid) == Restrict(tbl, {r \in DOMAIN tbl : tbl[r].story_id # sid})

\* "max(0, int(current_user.stories_count) - 1)" on the count the dependency loaded
CountDown(loaded) == IF loaded - 1 < 0 THEN 0 ELSE loaded - 1

\* DELETE /stories/{story_id}, the handler, up to its commit
DeleteStoryRun(k) ==
    LET req  == inflight[k]
        sid  == req.story_id
        user == req.user
        out(st) == [NoResp EXCEPT !.op = "delete_story", !.user = user,
                                  !.story_id = sid, !.status = st]
    IN  /\ req.op = "delete_story"
        /\ inflight' = [inflight EXCEPT ![k] = NoReq]
        /\ IF sid \notin DOMAIN stories
           THEN /\ resp' = out(404)
                /\ UNCHANGED <<users, stories, story_turns>>
           ELSE IF stories[sid].owner_id = NoId \/ stories[sid].owner_id # user
           THEN /\ resp' = out(403)
                /\ UNCHANGED <<users, stories, story_turns>>
           ELSE /\ story_turns' = DeleteTurnsOf(story_turns, sid)
                /\ stories' = Restrict(stories, DOMAIN stories \ {sid})
                /\ users' = [users EXCEPT ![user].stories_count = CountDown(req.stories_count)]
                /\ resp' = out(200)
        /\ UNCHANGED <<story_seq, turn_seq, appended, images, cred>>
        /\ UNCHANGED pvars

\* POST /stories/{story_id}/duplicate
DuplicateStory(user, sid) ==
    /\ IF sid \notin DOMAIN stories
       THEN /\ resp' = [NoResp EXCEPT !.op = "duplicate_story", !.user = user,
                                      !.story_id = sid, !.status = 404]
            /\ UNCHANGED <<stories, story_seq, users>>
       ELSE IF stories[sid].owner_id # NoId /\ stories[sid].owner_id # user
       THEN /\ resp' = [NoResp EXCEPT !.op = "duplicate_story", !.user = user,
                                      !.story_id = sid, !.status = 403]
            /\ UNCHANGED <<stories, story_seq, users>>
       ELSE LET copy_id == story_seq + 1
            IN  /\ copy_id <= MaxStories
                /\ stories' = stories @@ (copy_id :> CopyOf(stories[sid], user))
                /\ story_seq' = copy_id
                /\ users' = CountUp(users, user)
                /\ resp' = [NoResp EXCEPT !.op = "duplicate_story", !.user = user,
                                          !.story_id = sid, !.status = 200,
                                          !.id = copy_id]
    /\ UNCHANGED <<story_turns, turn_seq, appended>>
    /\ UNCHANGED pvars
    /\ UNCHANGED xvars

(***************************************************************************)
(* app/auth.py: credentials and bearer tokens                              *)
(***************************************************************************)
\* the salts passlib may draw for a bcrypt hash
Salts == {1, 2}

\* str.strip(): leading and trailing blanks removed
RECURSIVE strip(_)
strip(txt) ==
    IF txt = <<>> THEN txt
    ELSE IF Head(txt) = " " THEN strip(Tail(txt))
    ELSE IF txt[Len(txt)] = " " THEN strip(SubSeq(txt, 1, Len(txt) - 1))
    ELSE txt

\* hashlib.sha256(password).hexdigest(): the legacy digest, unsalted
_hash_password_sha256(password) == PasswordHash("sha256", 0, password)

\* pwd_context.hash(password): bcrypt under the salt passlib draws
hash_password(password, salt) == PasswordHash("bcrypt", salt, password)

\* stored_hash.startswith("$2")
IsBcrypt(stored_hash) == stored_hash.scheme = "bcrypt"

\* verify_password: bcrypt recomputes the digest under the stored salt
verify_password(password, stored_hash) ==
    IF IsBcrypt(stored_hash) THEN stored_hash.pw = password
    ELSE _hash_password_sha256(password) = stored_hash

\* verify_and_upgrade_password: the verdict and the users table after it
verify_and_upgrade_password(tbl, uid, password, salt) ==
    IF uid = NoId \/ ~verify_password(password, tbl[uid].password_hash)
    THEN [ok |-> FALSE, users |-> tbl]
    ELSE [ok |-> TRUE,
          users |-> IF ~IsBcrypt(tbl[uid].password_hash)
                    THEN [tbl EXCEPT ![uid].password_hash = hash_password(password, salt)]
                    ELSE tbl]

\* what an Authorization header can carry: no token, a token that does not
\* verify, an expired one, and one create_jwt signed that has not expired
TokenKinds == {"none", "forged", "expired", "signed"}

\* create_jwt
create_jwt(user_id) == [user_id |-> user_id, kind |-> "signed"]

\* get_current_user: the id of the user the token names, or none (401)
get_current_user(tbl, token) ==
    IF token.kind # "signed" THEN NoId
    ELSE IF token.user_id = NoId THEN NoId
    ELSE IF token.user_id \notin DOMAIN tbl THEN NoId
    ELSE token.user_id

\* filter(User.email == email).first()
UserByEmail(tbl, email) ==
    LET ids == {u \in DOMAIN tbl : tbl[u].email = email}
    IN  IF ids = {} THEN NoId ELSE Min(ids)

(***************************************************************************)
(* app/main.py: register, login, profile update                            *)
(***************************************************************************)
\* the users table holds at most MaxUsers rows
MaxUsers == 3

FoldNothing(email) == email

\* "req.email.lower()"
FoldEmail(email) == lower(email)

\* POST /auth/register up to the query for an existing user
RegisterCheck(k, email, username, password) ==
    LET folded == FoldEmail(email)
    IN  /\ FirstFree(inflight, k)
        /\ IF UserByEmail(users, folded) # NoId
           THEN /\ resp' = [NoResp EXCEPT !.op = "register", !.status = 400]
                /\ UNCHANGED inflight
           ELSE /\ inflight' = [inflight EXCEPT ![k] =
                                   [NoReq EXCEPT !.op = "register", !.email = folded,
                                                 !.username = username,
                                                 !.password = password]]
                /\ UNCHANGED resp
        /\ UNCHANGED <<users, stories, story_turns, story_seq, turn_seq, appended, images, cred>>
        /\ UNCHANGED pvars

\* the unique index on users.email: the ids of rows other than uid that hold email
EmailTaken(tbl, email, uid) == {u \in DOMAIN tbl \ {uid} : tbl[u].email = email}

\* POST /auth/register from db.add(user) on: the commit fails on the unique
\* index when a row with this email has been committed since the query
RegisterCommit(k, salt) ==
    LET req == inflight[k]
        id  == Max(DOMAIN users) + 1
    IN  /\ req.op = "register"
        /\ inflight' = [inflight EXCEPT ![k] = NoReq]
        /\ IF EmailTaken(users, req.email, NoId) # {}
           THEN /\ resp' = [NoResp EXCEPT !.op = "register", !.status = 500,
                                          !.error = "IntegrityError"]
                /\ UNCHANGED users
           ELSE /\ id <= MaxUsers
                /\ users' = users @@ (id :> User(req.email, req.username,
                                                 hash_password(req.password, salt), 0))
                /\ resp' = [NoResp EXCEPT !.op = "register", !.status = 200, !.id = id]
        /\ UNCHANGED <<stories, story_turns, story_seq, turn_seq, appended, images, cred>>
        /\ UNCHANGED pvars

\* POST /auth/login
Login(email, password, salt) ==
    LET uid == UserByEmail(users, lower(email))
    IN  /\ IF uid = NoId \/ users[uid].password_hash # hash_password(password, salt)
           THEN resp' = [NoResp EXCEPT !.op = "login", !.status = 401, !.user = uid,
                                       !.input = password]
           ELSE resp' = [NoResp EXCEPT !.op = "login", !.status = 200, !.user = uid,
                                       !.input = password, !.token = create_jwt(uid)]
        /\ UNCHANGED <<users, stories, story_turns, story_seq, turn_seq, appended>>
        /\ UNCHANGED pvars
        /\ UNCHANGED xvars

\* POST /api/user/update up to db.add(current_user): the fields are set on the
\* session's object; email, username or password None is left as it is
UpdateUserCheck(k, user, email, username, password) ==
    LET new_email    == IF email = NoSeq THEN <<>> ELSE lower(strip(email))
        new_username == IF username = NoSeq THEN <<>> ELSE strip(username)
        new_password == IF password = NoSeq THEN <<>> ELSE strip(password)
        out(st) == [NoResp EXCEPT !.op = "update_user", !.user = user, !.status = st]
    IN  /\ FirstFree(inflight, k)
        /\ IF new_email # <<>> /\ EmailTaken(users, new_email, user) # {}
           THEN /\ resp' = out(400)
                /\ UNCHANGED inflight
           ELSE IF new_password # <<>> /\ Len(new_password) < MinPasswordLen
           THEN /\ resp' = out(400)
                /\ UNCHANGED inflight
           ELSE /\ inflight' = [inflight EXCEPT ![k] =
                                   [NoReq EXCEPT !.op = "update_user", !.user = user,
                                       !.email = IF new_email # <<>> THEN new_email ELSE NoSeq,
                                       !.username = IF new_username # <<>> THEN new_username
                                                    ELSE NoSeq,
                                       !.password = IF new_password # <<>> THEN new_password
                                                    ELSE NoSeq]]
                /\ UNCHANGED resp
        /\ UNCHANGED <<users, stories, story_turns, story_seq, turn_seq, appended, images, cred>>
        /\ UNCHANGED pvars

\* POST /api/user/update from db.commit() on: the UPDATE of the changed columns
\* fails on the unique index when another row holds the new email by now
UpdateUserCommit(k, salt) ==
    LET req  == inflight[k]
        user == req.user
        row  == [users[user] EXCEPT
                    !.email = IF req.email # NoSeq THEN req.email ELSE @,
                    !.username = IF req.username # NoSeq THEN req.username ELSE @,
                    !.password_hash = IF req.password # NoSeq
                                      THEN hash_password(req.password, salt) ELSE @]
    IN  /\ req.op = "update_user"
        /\ inflight' = [inflight EXCEPT ![k] = NoReq]
        /\ IF req.email # NoSeq /\ EmailTaken(users, req.email, user) # {}
           THEN /\ resp' = [NoResp EXCEPT !.op = "update_user", !.user = user,
                                          !.status = 500, !.error = "IntegrityError"]
                /\ UNCHANGED users
           ELSE /\ users' = [users EXCEPT ![user] = row]
                /\ resp' = [NoResp EXCEPT !.op = "update_user", !.user = user,
                                          !.status = 200, !.id = user]
        /\ UNCHANGED <<stories, story_turns, story_seq, turn_seq, appended, images, cred>>
        /\ UNCHANGED pvars

(***************************************************************************)
(* app/field_assistant.py: generate_story_config                           *)
(***************************************************************************)
\* one client.responses.create call: it raises, or its text parses and passes
\* _validate_schema, or it does not
ProviderOutcomes == {"error", "valid", "invalid"}

\* "(genre or '').strip()"
OrEmptyStrip(txt) == IF txt = NoSeq THEN <<>> ELSE strip(txt)

\* "if not genre: raise ValueError ... if not user_prompt: raise ValueError"
Required(genre, user_prompt) ==
    IF genre = <<>> \/ user_prompt = <<>> THEN "ValueError" ELSE NoText

\* generate_story_config that also makes the repair call when the first call raised
RepairAfterError(genre, user_prompt, has_prompt_id, o1, o2) ==
    LET g == OrEmptyStrip(genre)
        q == OrEmptyStrip(user_prompt)
        first == IF o1 = "error" THEN "error" ELSE "ok"
    IN  IF Required(g, q) # NoText
        THEN [error |-> Required(g, q), provider |-> <<>>, config |-> NoConfig]
        ELSE IF ~has_prompt_id
        THEN [error |-> "UnboundLocalError", provider |-> <<>>, config |-> NoConfig]
        ELSE IF o1 = "valid"
        THEN [error |-> NoText, provider |-> <<"ok">>, config |-> CfgA]
        ELSE IF o2 = "error"
        THEN [error |-> "ProviderError", provider |-> <<first, "error">>, config |-> NoConfig]
        ELSE IF o2 = "valid"
        THEN [error |-> NoText, provider |-> <<first, "ok">>, config |-> CfgA]
        ELSE [error |-> "ValueError", provider |-> <<first, "ok">>, config |-> NoConfig]

\* generate_story_config: the error raised, if any, and the provider calls made;
\* has_prompt_id is whether YANDEX_FIELD_ASSISTANT_PROMPT_ID is set, o1 and o2
\* are what the first call and the repair call do
generate_story_config(genre, user_prompt, has_prompt_id, o1, o2) ==
    LET g == OrEmptyStrip(genre)
        q == OrEmptyStrip(user_prompt)
    IN  IF Required(g, q) # NoText
        THEN [error |-> Required(g, q), provider |-> <<>>, config |-> NoConfig]
        ELSE IF ~has_prompt_id
        THEN [error |-> "UnboundLocalError", provider |-> <<>>, config |-> NoConfig]
        ELSE IF o1 = "error"
        THEN [error |-> "ProviderError", provider |-> <<"error">>, config |-> NoConfig]
        ELSE IF o1 = "valid"
        THEN [error |-> NoText, provider |-> <<"ok">>, config |-> CfgA]
        ELSE IF o2 = "error"
        THEN [error |-> "ProviderError", provider |-> <<"ok", "error">>, config |-> NoConfig]
        ELSE IF o2 = "valid"
        THEN [error |-> NoText, provider |-> <<"ok", "ok">>, config |-> CfgA]
        ELSE [error |-> "ValueError", provider |-> <<"ok", "ok">>, config |-> NoConfig]

\* a call generate_story_config(genre, user_prompt)
FieldAssist(genre, user_prompt, has_prompt_id, o1, o2) ==
    LET r == generate_story_config(genre, user_prompt, has_prompt_id, o1, o2)
    IN  /\ resp' = [NoResp EXCEPT !.op = "field_assistant", !.genre = genre,
                                  !.prompt = user_prompt, !.error = r.error,
                                  !.provider = r.provider, !.config = r.config]
        /\ UNCHANGED <<users, stories, story_turns, story_seq, turn_seq, appended>>
        /\ UNCHANGED pvars
        /\ UNCHANGED xvars

(***************************************************************************)
(* app/main.py, app/storage.py: image upload                               *)
(***************************************************************************)
\* app.config.MAX_FILE_SIZE, storage.MAX_IMAGE_SIZE_BYTES: 5 MB
MAX_FILE_SIZE == 5 * 1024 * 1024

\* the content types upload_image lets through
AllowedTypes == {"image/png", "image/jpeg", "image/webp"}

\* ImageStorage.upload_image: the extension after "image/"
ExtOf(content_type) ==
    CASE content_type = "image/png"  -> "png"
      [] content_type = "image/jpeg" -> "jpeg"
      [] content_type = "image/webp" -> "webp"
      [] OTHER -> "other"

\* POST /upload-image: the handler has no dependency on get_current_user; put is
\* what put_object does, "ok" or "error"
UploadImage(content_type, size, put) ==
    LET key == [id |-> Cardinality(images) + 1, ext |-> ExtOf(content_type)]
        out(st) == [NoResp EXCEPT !.op = "upload_image", !.status = st]
    IN  /\ IF content_type \notin AllowedTypes \/ size > MAX_FILE_SIZE
           THEN resp' = out(400) /\ UNCHANGED images
           ELSE IF put = "error"
           THEN resp' = out(500) /\ UNCHANGED images
           ELSE /\ Cardinality(images) < MaxImages
                /\ images' = images \cup {key}
                /\ resp' = [out(200) EXCEPT !.id = key.id]
        /\ UNCHANGED <<users, stories, story_turns, story_seq, turn_seq, appended>>
        /\ UNCHANGED <<inflight, cred>>
        /\ UNCHANGED pvars

(***************************************************************************)
(* Requests under the dependency get_current_user                          *)
(***************************************************************************)
\* the endpoints declared with current_user=Depends(get_current_user)
ProtectedOps ==
    {"create_story", "update_story", "delete_story", "list_stories", "add_turn",
     "get_story", "duplicate_story", "story_step", "field_assistant", "profile",
     "update_user"}

\* a request arrives with its Authorization header; requests are served one
\* after another here
Arrive(token) ==
    /\ inflight = NoRequests
    /\ cred' = token
    /\ UNCHANGED <<users, stories, story_turns, story_seq, turn_seq, appended, resp,
                   inflight, images>>
    /\ UNCHANGED pvars

\* the dependency raises 401 and the handler is not entered
Reject(op) ==
    /\ get_current_user(users, cred) = NoId
    /\ inflight = NoRequests
    /\ resp' = [NoResp EXCEPT !.op = op, !.status = 401]
    /\ UNCHANGED <<users, stories, story_turns, story_seq, turn_seq, appended>>
    /\ UNCHANGED pvars
    /\ UNCHANGED xvars

\* the dependency returns user, the user of the token, and the handler is entered
Authenticated(user) ==
    /\ user # NoId
    /\ user = get_current_user(users, cred)
    /\ inflight = NoRequests

(***************************************************************************)
(* Inputs of the pipeline: up to MaxWords words joined by blanks           *)
(***************************************************************************)
Vocabulary ==
    { <<"H", "i">>,                 \* Hi
      <<"t", "h", "i", "s">>,       \* this: holds "hi"
      <<"h", "e", "l", "p">>,       \* help
      <<"C_M", "C_I", "C_R">>,      \* upper-case Cyrillic "mir"
      <<"c_m", "c_i", "c_g">>,      \* Cyrillic "mig"
      <<"G", "O">>,                 \* GO
      <<"a", "g", "o">>,            \* ago: holds "go"
      <<"o", "p", "e", "n">>,       \* open
      <<"c_a", "c_t", "c_a", "c_k", "c_a">>,  \* Cyrillic "ataka"
      <<"x">> }

RECURSIVE MessagesOf(_)
MessagesOf(n) ==
    IF n = 0 THEN {<<>>}
    ELSE LET shorter == MessagesOf(n - 1)
         IN  shorter \cup Vocabulary
                     \cup {s \o <<" ">> \o w : s \in shorter \ {<<>>}, w \in Vocabulary}

Messages == MessagesOf(MaxWords)

\* no request has been served: the pipeline variables before the first call
InitPipeline ==
    /\ message = <<>>
    /\ reply = <<>>
    /\ trace = <<>>
    /\ calls = <<>>

\* a request with any of the messages has arrived and is not served yet; the
\* database holds the template
InitRequest ==
    /\ InitDB
    /\ message \in Messages
    /\ reply = <<>>
    /\ trace = <<>>
    /\ calls = <<>>

\* Pipeline.run on the default modules serves the request
Infer ==
    LET r == PipelineRun(default_modules, message)
    IN  /\ trace = <<>>
        /\ reply' = r.reply
        /\ trace' = r.trace
        /\ calls' = r.calls
        /\ UNCHANGED message
        /\ UNCHANGED dbvars
        /\ UNCHANGED xvars

NextPipeline == Infer

SpecPipeline == InitRequest /\ [][NextPipeline]_vars

\* a database holding the template and one story of user 1
InitTurnLog ==
    /\ InitPipeline
    /\ users = [u \in Users |-> SeedUser(u, IF u = 1 THEN 1 ELSE 0)]
    /\ stories = (1 :> Story(NoId, "t1", "Horror", CfgA)) @@ (2 :> Story(1, "t2", "Fantasy", CfgB))
    /\ story_seq = 2
    /\ story_turns = EmptyTable
    /\ turn_seq = 0
    /\ appended = [s \in StoryIds |-> <<>>]
    /\ resp = NoResp
    /\ inflight = NoRequests
    /\ images = {}
    /\ cred = NoToken

NextTurnLog ==
    \/ \E sid \in {2}, ut \in UserTexts, tok \in Tokens : AddTurnCall(sid, ut, "m1", tok)
    \/ \E sid \in {2}, limit \in 0..(MaxLogLen + 1) : GetTurnsCall(sid, limit)

SpecTurnLog == InitTurnLog /\ [][NextTurnLog]_vars

\* ids a request may name: every id the table can issue, and one it never issues
RequestIds == 1..(MaxStories + 1)

\* the bodies of POST /stories/{id}/turns: complete, and with an empty text
TurnBodies == {<<"u1", "m1">>, <<"", "m1">>, <<"u1", "">>}

\* the payloads of PUT /stories/{id}: a title alone, a config alone
UpdatePayloads == {<<"t3", NoConfig>>, <<NoText, CfgB>>}

CreateAny == \E u \in Users : CreateStory(u, "t2", "Fantasy", CfgB)

UpdateAny == \E u \in Users, sid \in RequestIds, p \in UpdatePayloads : UpdateStory(u, sid, p[1], p[2])

GetAny == \E u \in Users, sid \in RequestIds : GetStory(u, sid)

AddTurnAny == \E u \in Users, sid \in RequestIds, b \in TurnBodies : AddTurn(u, sid, b[1], b[2])

StepAny == \E u \in Users, sid \in RequestIds, o \in {"error", "p1"} : StoryStep(u, sid, "u1", o)

\* a database holding one template, to whose log one turn was posted
InitStories ==
    LET r == add_turn(EmptyTable, 0, 1, "u1", "m1", NoText)
    IN  /\ InitPipeline
        /\ users = [u \in Users |-> SeedUser(u, 0)]
        /\ stories = (1 :> Story(NoId, "t1", "Horror", CfgA))
        /\ story_seq = 1
        /\ story_turns = r.story_turns
        /\ turn_seq = r.turn_seq
        /\ appended = [s \in StoryIds |-> IF s = 1 THEN <<Turn("u1", "m1")>> ELSE <<>>]
        /\ resp = NoResp
        /\ inflight = NoRequests
        /\ images = {}
        /\ cred = NoToken

\* the story endpoints
NextStories == CreateAny \/ UpdateAny \/ GetAny

SpecStories == InitStories /\ [][NextStories]_vars

\* the turn endpoints and the story read, from a database holding the template
\* and one story of user 1
NextTurns == AddTurnAny \/ StepAny \/ GetAny

SpecTurns == InitTurnLog /\ [][NextTurns]_vars

(***************************************************************************)
(* Creation, copies and deletion of stories, deletions side by side        *)
(***************************************************************************)
\* a database holding the template, to whose log one turn was posted, and one
\* story of user 1, whose log holds one appended turn and one generated turn
InitOwned ==
    LET t == add_turn(EmptyTable, 0, 1, "u1", "m1", NoText)
        a == add_turn(t.story_turns, t.turn_seq, 2, "u1", "m1", NoText)
        b == PersistStep(a.story_turns, a.turn_seq, 2, "u2", "p1")
    IN  /\ InitPipeline
        /\ users = [u \in Users |-> SeedUser(u, IF u = 1 THEN 1 ELSE 0)]
        /\ stories = (1 :> Story(NoId, "t1", "Horror", CfgA)) @@ (2 :> Story(1, "t2", "Fantasy", CfgB))
        /\ story_seq = 2
        /\ story_turns = b.story_turns
        /\ turn_seq = b.turn_seq
        /\ appended = [s \in StoryIds |-> IF s \in {1, 2} THEN <<Turn("u1", "m1")>> ELSE <<>>]
        /\ resp = NoResp
        /\ inflight = NoRequests
        /\ images = {}
        /\ cred = NoToken

DeleteAuthAny == \E k \in Slots, u \in Users, sid \in RequestIds : DeleteStoryAuth(k, u, sid)

DeleteRunAny == \E k \in Slots : DeleteStoryRun(k)

DuplicateAny == \E u \in Users, sid \in RequestIds : DuplicateStory(u, sid)

NextCount == CreateAny \/ GetAny \/ DuplicateAny \/ DeleteAuthAny \/ DeleteRunAny

SpecCount == InitOwned /\ [][NextCount]_vars

\* deletions alone, side by side
NextDelete == DeleteAuthAny \/ DeleteRunAny

SpecDelete == InitOwned /\ [][NextDelete]_vars

(***************************************************************************)
(* Accounts: register, login and profile update, side by side              *)
(***************************************************************************)
\* user 1 registered with "secret1"; user 2 is a record of the time of the
\* sha256 digests, with the same password
InitAuth ==
    /\ InitPipeline
    /\ users = (1 :> SeedUser(1, 0)) @@
               (2 :> User(<<"b">>, <<"n", "a", "m", "e">>, _hash_password_sha256(Secret1), 0))
    /\ stories = (1 :> Story(NoId, "t1", "Horror", CfgA))
    /\ story_seq = 1
    /\ story_turns = EmptyTable
    /\ turn_seq = 0
    /\ appended = [s \in StoryIds |-> <<>>]
    /\ resp = NoResp
    /\ inflight = NoRequests
    /\ images = {}
    /\ cred = NoToken

\* addresses a request may carry: taken and free ones, in either case
Emails == {<<"A">>, <<"c">>, <<"C">>}

Passwords == {Secret1, Wrong12}

RegisterCheckAny ==
    \E k \in Slots, em \in Emails : RegisterCheck(k, em, <<"n">>, Secret1)

RegisterCheckPwAny ==
    \E k \in Slots, em \in Emails, pw \in Passwords : RegisterCheck(k, em, <<"n">>, pw)

RegisterCommitAny == \E k \in Slots, salt \in Salts : RegisterCommit(k, salt)

LoginAny ==
    \E em \in {<<"A">>, <<"b">>, <<"c">>}, pw \in Passwords, salt \in Salts : Login(em, pw, salt)

UpdateUserCheckAny ==
    \E k \in Slots, u \in DOMAIN users :
        \/ \E em \in {<<"A">>, <<"C">>} : UpdateUserCheck(k, u, em, NoSeq, NoSeq)
        \/ \E pw \in {ShortPw, Wrong12} : UpdateUserCheck(k, u, <<"c">>, <<" ", "m">>, pw)

UpdateUserCommitAny == \E k \in Slots, salt \in Salts : UpdateUserCommit(k, salt)

\* registers and logins
NextLogin == RegisterCheckPwAny \/ RegisterCommitAny \/ LoginAny

SpecLogin == InitAuth /\ [][NextLogin]_vars

\* registers and profile updates
NextAccounts ==
    \/ RegisterCheckAny
    \/ RegisterCommitAny
    \/ UpdateUserCheckAny
    \/ UpdateUserCommitAny

SpecAccounts == InitAuth /\ [][NextAccounts]_vars

(***************************************************************************)
(* Requests with empty fields                                              *)
(***************************************************************************)
\* the texts a generation request may carry: none, empty, blank, and two others
FieldTexts == {NoSeq, <<>>, <<" ">>, <<"g">>, <<" ", "q", " ">>}

StepInputAny ==
    \E u \in Users, sid \in RequestIds, ui \in {"", "u1"}, o \in {"error", "p1"} :
        StoryStep(u, sid, ui, o)

FieldAssistAny ==
    \E g \in FieldTexts, q \in FieldTexts, id \in BOOLEAN,
       o1 \in ProviderOutcomes, o2 \in ProviderOutcomes :
        FieldAssist(g, q, id, o1, o2)

NextValidation == StepInputAny \/ FieldAssistAny \/ AddTurnAny

SpecValidation == InitTurnLog /\ [][NextValidation]_vars

(***************************************************************************)
(* Requests with and without a valid bearer token                          *)
(***************************************************************************)
\* no header; a token with a wrong signature; an expired one; a signed one whose
\* user is not in the table; a signed one without user_id; the one of user 1
Credentials ==
    {NoToken,
     [user_id |-> 1, kind |-> "forged"],
     [user_id |-> 1, kind |-> "expired"],
     [user_id |-> 9, kind |-> "signed"],
     [user_id |-> NoId, kind |-> "signed"],
     create_jwt(1)}

ArriveAny == \E t \in Credentials : Arrive(t)

RejectAny == \E op \in ProtectedOps : Reject(op)

GuardedCreate ==
    \E u \in DOMAIN users : Authenticated(u) /\ CreateStory(u, "t2", "Fantasy", CfgB)

GuardedUpdate ==
    \E u \in DOMAIN users : Authenticated(u) /\ UpdateStory(u, 2, "t3", NoConfig)

GuardedDelete ==
    \E sid \in {1, 2}, u \in DOMAIN users : Authenticated(u) /\ DeleteStoryAuth(1, u, sid)

GuardedAddTurn == \E u \in DOMAIN users : Authenticated(u) /\ AddTurn(u, 2, "u1", "m1")

GuardedGet == \E sid \in {1, 2}, u \in DOMAIN users : Authenticated(u) /\ GetStory(u, sid)

GuardedDuplicate == \E u \in DOMAIN users : Authenticated(u) /\ DuplicateStory(u, 2)

GuardedStep ==
    \E o \in {"error", "p1"}, u \in DOMAIN users : Authenticated(u) /\ StoryStep(u, 2, "u1", o)

GuardedFieldAssist ==
    \E u \in DOMAIN users :
        Authenticated(u) /\ FieldAssist(<<"g">>, <<"g">>, TRUE, "valid", "valid")

GuardedUpdateUser ==
    \E u \in DOMAIN users : Authenticated(u) /\ UpdateUserCheck(1, u, <<"c">>, NoSeq, NoSeq)

UploadAny ==
    \E ct \in {"image/png", "image/gif"}, size \in {1, MAX_FILE_SIZE + 1},
       put \in {"ok", "error"} :
        UploadImage(ct, size, put)

NextGuard ==
    \/ ArriveAny
    \/ RejectAny
    \/ GuardedCreate
    \/ GuardedUpdate
    \/ GuardedDelete
    \/ DeleteRunAny
    \/ GuardedAddTurn
    \/ GuardedGet
    \/ GuardedDuplicate
    \/ GuardedStep
    \/ GuardedFieldAssist
    \/ GuardedUpdateUser
    \/ UpdateUserCommitAny
    \/ UploadAny

SpecGuard == InitTurnLog /\ [][NextGuard]_vars

(***************************************************************************)
(* Appends and turn advancements on one story, side by side                *)
(***************************************************************************)
AddTurnBeginAny ==
    \E k \in Slots, ut \in UserTexts, tok \in {NoText, "tok1"} :
        AddTurnBegin(k, 2, ut, "m1", tok)

AddTurnCommitAny == \E k \in Slots : AddTurnCommit(k)

StepOwnAny == \E o \in {"error", "p1"} : StoryStep(1, 2, "u1", o)

NextAppend == AddTurnBeginAny \/ AddTurnCommitAny \/ StepOwnAny

SpecAppend == InitTurnLog /\ [][NextAppend]_vars

(***************************************************************************)
(* Turn advancements side by side, on stories with and without an opening  *)
(* line, and add_turn called with the reply and token of a provider answer *)
(***************************************************************************)
\* a database holding the template and two stories of user 1: story 2 without
\* an opening line, story 3 with one
InitSteps ==
    /\ InitPipeline
    /\ users = [u \in Users |-> SeedUser(u, IF u = 1 THEN 2 ELSE 0)]
    /\ stories = (1 :> Story(NoId, "t1", "Horror", CfgA))
                 @@ (2 :> Story(1, "t2", "Fantasy", CfgB))
                 @@ (3 :> Story(1, "t3", "Fantasy", CfgA))
    /\ story_seq = 3
    /\ story_turns = EmptyTable
    /\ turn_seq = 0
    /\ appended = [s \in StoryIds |-> <<>>]
    /\ resp = NoResp
    /\ inflight = NoRequests
    /\ images = {}
    /\ cred = NoToken

NextSteps ==
    \/ \E k \in Slots, sid \in StoryIds,
          b \in {<<"u1", "dialogue">>, <<"u2", "narration">>, <<"", "directive">>,
                 <<"u1", "free">>} :
           StepBegin(k, 1, sid, b[1], b[2])
    \/ \E k \in Slots, o \in {"error", "p1"} : StepReply(k, o)
    \/ \E k \in Slots : StepCommit(k)
    \/ AddTurn(1, 2, "u1", "m1")

SpecSteps == InitSteps /\ [][NextSteps]_vars

(***************************************************************************)
(* add_turn called side by side with the reply and the token of a provider *)
(* answer                                                                  *)
(***************************************************************************)
\* provider answers in the order they were issued: the reply text and the
\* continuation token that came with it
Responses == <<<<"m0", "tok0">>, <<"m1", "tok1">>, <<"m2", "tok2">>>>

NextTokens ==
    \/ \E k \in Slots, i \in DOMAIN Responses :
           AddTurnBegin(k, 2, "u1", Responses[i][1], Responses[i][2])
    \/ AddTurnCommitAny

SpecTokens == InitTurnLog /\ [][NextTokens]_vars

(***************************************************************************)
(* Claims about the pipeline                                               *)
(***************************************************************************)
\* the positions of the non-fallback modules that clear the threshold on msg
Accepting(msg) ==
    {i \in 1..Len(default_modules) :
        default_modules[i] # "fallback" /\ score(default_modules[i], msg) >= Thr}

Least(S) == CHOOSE i \in S : \A j \in S : i <= j

\* C1: the reply is exactly the output of the first non-fallback module, in the
\* order greeting, lore, action, whose score is at least the threshold, and
\* exactly the fallback's output when none reaches it.
C1_FirstMatchReply ==
    trace # <<>> =>
        IF Accepting(message) # {}
        THEN reply = run(default_modules[Least(Accepting(message))], message)
        ELSE reply = run("fallback", message)

\* lore and action both clear the threshold, greeting does not: lore's output is the reply
C1_Witness ==
    /\ trace # <<>>
    /\ Accepting(message) = {2, 3}
    /\ reply = <<"LORE_TEXT">>

\* C2: the reply is one module's output; the trace lists the modules in order up
\* to and including the first accepting non-fallback module, or all of them when
\* none accepts; no later module is scored or run.
C2_TraceLength ==
    trace # <<>> =>
        LET n == IF Accepting(message) # {} THEN Least(Accepting(message))
                 ELSE Len(default_modules)
            scored == SelectSeq(calls, LAMBDA c : c.fn = "score")
            ranSeq == SelectSeq(calls, LAMBDA c : c.fn = "run")
        IN  /\ Len(trace) = n
            /\ \A k \in 1..n : trace[k].module = default_modules[k]
            /\ Len(scored) = n
            /\ \A k \in 1..n : scored[k].module = default_modules[k]
            /\ Len(ranSeq) = 1
            /\ ranSeq[1].module = default_modules[n]
            /\ reply = trace[n].output
            /\ \E k \in 1..Len(default_modules) : reply = run(default_modules[k], message)

\* lore accepts second; action would accept too and is neither scored nor run
C2_Witness ==
    /\ trace # <<>>
    /\ Len(trace) = 2
    /\ score("action", message) >= Thr
    /\ \A k \in 1..Len(calls) : calls[k].module # "action"

(***************************************************************************)
(* Claims about the turn log                                               *)
(***************************************************************************)
\* C3: after N calls of add_turn on a story, get_turns with a limit of at least N
\* returns the N turns in the order they were appended, and with a limit k < N
\* (k = 0 too) exactly the last k turns, oldest first.
C3_TurnLogRoundTrip ==
    resp.op = "get_turns" =>
        LET log == appended[resp.story_id]
            N   == Len(log)
            k   == resp.limit
        IN  IF k >= N THEN resp.turns = log
            ELSE resp.turns = SubSeq(log, N - k + 1, N)

(***************************************************************************)
(* Claims about turn advancement                                           *)
(***************************************************************************)
\* the story of the last call exists and is owned by the caller
CallerOwns == resp'.story_id \in DOMAIN stories /\ stories[resp'.story_id].owner_id = resp'.user

\* C4: when the provider call of a turn advancement fails, the call does not
\* raise, it returns the fixed unavailability text, and the turn log is the same
\* before and after the call.
C4_ProviderFailureNoChange ==
    [][ (resp'.op = "story_step" /\ resp'.provider = <<"error">>) =>
            /\ resp'.error = NoText
            /\ resp'.text = Unavailable
            /\ story_turns' = story_turns
            /\ turn_seq' = turn_seq ]_vars

\* the provider failed on a story that already has a turn-log row
C4_Witness ==
    /\ resp.op = "story_step"
    /\ resp.provider = <<"error">>
    /\ resp.text = Unavailable
    /\ \E r \in DOMAIN story_turns : story_turns[r].story_id = resp.story_id

\* the turns of a story's only row, or none when it has no row or several
SingleRowTurns(tbl, sid) ==
    LET ids == {r \in DOMAIN tbl : tbl[r].story_id = sid}
    IN  IF Cardinality(ids) = 1 THEN tbl[CHOOSE r \in ids : TRUE].turns ELSE <<>>

\* C5: when the provider call succeeds, one record {user_text, model_text} is
\* appended to the end of the story's single turn-log row (created for the first
\* turn), the continuation token is stored on that row, and the reply is returned.
C5_SuccessAppendsToSingleRow ==
    [][ (resp'.op = "story_step" /\ resp'.provider = <<"ok">>) =>
            LET sid == resp'.story_id
                ids == {r \in DOMAIN story_turns' : story_turns'[r].story_id = sid}
            IN  /\ Cardinality(ids) = 1
                /\ SingleRowTurns(story_turns', sid) =
                       Append(SingleRowTurns(story_turns, sid),
                              Turn(resp'.input, resp'.text))
                /\ \A r \in ids : Truthy(story_turns'[r].yc_previous_response_id)
                /\ resp'.text = "p1" ]_vars

\* C6: turn advancement on a story that does not exist, is owned by another user
\* or is a template raises the domain error before any provider call, and no
\* turn is persisted.
C6_InaccessibleStoryFailsFast ==
    [][ (resp'.op = "story_step" /\ ~CallerOwns) =>
            /\ resp'.error = "ValueError"
            /\ resp'.provider = <<>>
            /\ story_turns' = story_turns
            /\ turn_seq' = turn_seq ]_vars

\* the call named a story of another user, and the log holds turns
C6_Witness ==
    /\ resp.op = "story_step"
    /\ resp.error = "ValueError"
    /\ resp.story_id \in DOMAIN stories
    /\ stories[resp.story_id].owner_id \notin {NoId, resp.user}
    /\ story_turns # EmptyTable

\* C7: no template ever has a turn in its turn log.
C7_TemplateNeverGetsTurn ==
    \A r \in DOMAIN story_turns :
        LET sid == story_turns[r].story_id
        IN  (sid \in DOMAIN stories /\ stories[sid].owner_id = NoId) =>
                (story_turns[r].turns = <<>> /\ story_turns[r].idx = NoId)

(***************************************************************************)
(* Claims about the story endpoints                                        *)
(***************************************************************************)
\* C8: an update of a story that is a template or is owned by another user is
\* refused, and the story's title and config stay as they were.
C8_UpdateOnlyOwnStories ==
    [][ (resp'.op = "update_story" /\ ~CallerOwns) =>
            /\ resp'.status = 403
            /\ stories' = stories ]_vars

\* C9: reading a story id that is neither owned by the caller nor a template is
\* answered Not-Found, with none of the story's data or turns.
C9_ForeignStoryNotFound ==
    (/\ resp.op = "get_story"
     /\ \/ resp.story_id \notin DOMAIN stories
        \/ stories[resp.story_id].owner_id \notin {NoId, resp.user}) =>
        /\ resp.status = 404
        /\ resp.id = NoId
        /\ resp.title = NoText
        /\ resp.config = NoConfig
        /\ resp.turns = <<>>

OwnedBy(u) == {s \in DOMAIN stories : stories[s].owner_id = u}

\* C11: whenever no request is underway, each user's stories_count is the number
\* of stories that user owns, and it is never negative.
C11_StoriesCountTracksOwned ==
    /\ \A u \in DOMAIN users : users[u].stories_count >= 0
    /\ inflight = NoRequests =>
           \A u \in DOMAIN users : users[u].stories_count = Cardinality(OwnedBy(u))

\* the request that worker k finishes in this step
Finishing(k, op) == inflight[k].op = op /\ inflight'[k] = NoReq

\* C12: a delete by the owner removes the story and every turn-log row of it and
\* nothing else; a delete of a template or of another user's story is refused
\* with a permission error and leaves stories, turn log and counts as they were.
C12_DeleteCascadesOrRefuses ==
    [][ \A k \in Slots : Finishing(k, "delete_story") =>
            LET sid == inflight[k].story_id
                u   == inflight[k].user
            IN  /\ (sid \in DOMAIN stories /\ stories[sid].owner_id = u) =>
                       /\ resp'.status = 200
                       /\ stories' = Restrict(stories, DOMAIN stories \ {sid})
                       /\ \A r \in DOMAIN story_turns' : story_turns'[r].story_id # sid
                       /\ \A r \in DOMAIN story_turns :
                              story_turns[r].story_id # sid =>
                                  (r \in DOMAIN story_turns' /\ story_turns'[r] = story_turns[r])
                /\ (sid \in DOMAIN stories /\ stories[sid].owner_id # u) =>
                       /\ resp'.status = 403
                       /\ stories' = stories
                       /\ story_turns' = story_turns
                       /\ users' = users ]_vars

\* the owner deleted a story that had two turn-log rows: none of them is left,
\* and the row of the template is
C12_Witness ==
    /\ resp.op = "delete_story"
    /\ resp.status = 200
    /\ resp.story_id = 2
    /\ 2 \notin DOMAIN stories
    /\ DOMAIN story_turns = {1}

(***************************************************************************)
(* Claims about accounts                                                   *)
(***************************************************************************)
\* C13: a login with the email and the password a user registered with succeeds
\* and returns a non-empty bearer token of that user; a login with that email
\* and another password is answered with an authentication error.
C13_LoginAfterRegister ==
    (/\ resp.op = "login"
     /\ resp.user # NoId
     /\ IsBcrypt(users[resp.user].password_hash)) =>
        IF resp.input = users[resp.user].password_hash.pw
        THEN /\ resp.status = 200
             /\ resp.token # NoToken
             /\ resp.token.user_id = resp.user
        ELSE resp.status = 401 /\ resp.token = NoToken

\* C14: a login with password p of a user whose stored hash is the sha256 digest
\* of p succeeds and leaves a bcrypt hash of p in its place, a login with p on
\* that bcrypt hash succeeds again, and a login with a wrong password leaves the
\* stored hash as it was.
C14_LegacyHashUpgrade ==
    [][ (resp'.op = "login" /\ resp'.user # NoId) =>
            LET u == resp'.user
                p == resp'.input
            IN  /\ users[u].password_hash = _hash_password_sha256(p) =>
                       /\ resp'.status = 200
                       /\ IsBcrypt(users'[u].password_hash)
                       /\ verify_password(p, users'[u].password_hash)
                /\ (u = 2 /\ IsBcrypt(users[u].password_hash)
                          /\ verify_password(p, users[u].password_hash)) =>
                       resp'.status = 200
                /\ ~verify_password(p, users[u].password_hash) =>
                       /\ resp'.status = 401
                       /\ users'[u].password_hash = users[u].password_hash ]_vars

\* C16: no two user records hold the same case-folded email; a register or an email
\* update whose case-folded email another user holds is rejected and leaves
\* every user record as it was.
C16_UniqueFoldedEmail ==
    [][ /\ \A u, v \in DOMAIN users' :
               u # v => lower(users'[u].email) # lower(users'[v].email)
        /\ \A k \in Slots :
               /\ (Finishing(k, "register")
                     /\ \E u \in DOMAIN users : lower(users[u].email) = lower(inflight[k].email)) =>
                      (resp'.status \in {400, 500} /\ users' = users)
               /\ (Finishing(k, "update_user") /\ inflight[k].email # NoSeq
                     /\ \E u \in DOMAIN users \ {inflight[k].user} :
                            lower(users[u].email) = lower(inflight[k].email)) =>
                      (resp'.status \in {400, 500} /\ users' = users)
        /\ (resp' # resp /\ resp'.op \in {"register", "update_user"} /\ resp'.status = 400) =>
               users' = users ]_vars

\* two registers of "C" and "c" ran side by side: one row holds "c", the later
\* commit was refused
C16_Witness ==
    /\ resp.op = "register"
    /\ resp.status = 500
    /\ Cardinality({u \in DOMAIN users : users[u].email = <<"c">>}) = 1

(***************************************************************************)
(* Claims about validation                                                 *)
(***************************************************************************)
\* C17: a turn advancement with an empty user text, and a story-config
\* generation with an empty genre or an empty prompt, fails with a validation
\* error, with no call to the provider and nothing persisted.
C17_EmptyFieldsRejectedFirst ==
    [][ /\ (resp'.op = "story_step" /\ resp'.input = "") =>
               /\ resp'.error # NoText
               /\ resp'.provider = <<>>
               /\ story_turns' = story_turns
        /\ (resp'.op = "field_assistant" /\ (resp'.genre = <<>> \/ resp'.prompt = <<>>)) =>
               /\ resp'.error = "ValueError"
               /\ resp'.provider = <<>>
               /\ story_turns' = story_turns
               /\ stories' = stories ]_vars

(***************************************************************************)
(* Claims about authentication                                             *)
(***************************************************************************)
\* C15: a request to any operation other than register, login, health check and
\* image fetch that carries no token, an invalid or expired token, or a token of
\* a user that is not in the table, is answered 401 and leaves the database and
\* the object storage as they were; image upload is one of these operations.
C15_AuthBeforeHandler ==
    [][ (/\ cred' = cred
         /\ inflight = NoRequests
         /\ get_current_user(users, cred) = NoId
         /\ resp'.op \notin {"register", "login"}) =>
            /\ resp'.status = 401
            /\ users' = users
            /\ stories' = stories
            /\ story_turns' = story_turns
            /\ images' = images ]_vars

(***************************************************************************)
(* Claims about the shape of the turn log                                  *)
(***************************************************************************)
\* the turn-log rows of story sid
RowsOf(tbl, sid) == {r \in DOMAIN tbl : tbl[r].story_id = sid}

\* C18: no story ever has more than one turn-log row.
C18_OneRowPerStory ==
    \A sid \in DOMAIN stories : Cardinality(RowsOf(story_turns, sid)) <= 1

IsPrefix(xs, ys) == Len(xs) <= Len(ys) /\ SubSeq(ys, 1, Len(xs)) = xs

\* the turns of story sid as get_turns reads them, all of them
StoredTurns(tbl, sid) ==
    LET rid == FirstTurnRow(tbl, sid)
    IN  IF rid = NoId THEN <<>> ELSE tbl[rid].turns

\* C19: in every step but the deletion of the story, the turns stored for a
\* story before the step are a prefix of those stored after it.
C19_AppendOnly ==
    [][ \A sid \in DOMAIN stories \cap DOMAIN stories' :
            IsPrefix(StoredTurns(story_turns, sid), StoredTurns(story_turns', sid)) ]_vars

\* C20: a turn-log row that holds one turn or more holds a non-empty
\* continuation token.
C20_TurnsImplyToken ==
    \A r \in DOMAIN story_turns :
        (story_turns[r].turns # <<>> \/ story_turns[r].idx # NoId) =>
            Truthy(story_turns[r].yc_previous_response_id)

(***************************************************************************)
(* Claims about turn advancements that run side by side                    *)
(***************************************************************************)
\* C21: once the turn advancements of a story have completed, the story's turn
\* log holds each turn they produced exactly once, in the order in which they
\* completed. The log is read here in the layout generate_story_step writes,
\* one row per turn in idx order, for the stories whose turns were all written
\* that way.
C21_BothTurnsInCompletionOrder ==
    \A sid \in DOMAIN stories :
        LET rows == RowsOf(story_turns, sid)
        IN  (/\ \A k \in Slots : inflight[k].story_id # sid
             /\ \A r \in rows : story_turns[r].idx # NoId /\ story_turns[r].turns = <<>>)
            => /\ Cardinality(rows) = Len(appended[sid])
               /\ \A i \in 1..Len(appended[sid]) :
                      \E r \in rows :
                          /\ story_turns[r].idx = i
                          /\ Turn(story_turns[r].user_text, story_turns[r].model_text)
                                 = appended[sid][i]

HasPriorTurn(tbl, sid) ==
    \E r \in RowsOf(tbl, sid) : tbl[r].turns # <<>> \/ tbl[r].idx # NoId

\* C24: the request built for a turn starts with the system directive and ends
\* with the user's new input tagged with the mode instruction; the opening line
\* is in it, as the assistant's first line, exactly when the story has no prior
\* turn and an opening line is configured; when a prior turn exists the request
\* carries the prior context and never the opening line.
C24_RequestShape ==
    [][ \A k \in Slots :
            (inflight[k] = NoReq /\ inflight'[k].op = "story_step") =>
                LET req     == inflight'[k]
                    msgs    == req.messages
                    n       == Len(msgs)
                    config  == stories[req.story_id].config
                    opening == [role |-> "assistant", content |-> <<config.start_phrase>>]
                    prior   == HasPriorTurn(story_turns, req.story_id)
                IN  /\ n >= 2
                    /\ msgs[1].role = "system"
                    /\ msgs[n] = [role |-> "user",
                                  content |-> <<mode_prefix(req.mode), "CURRENT TURN",
                                                req.user_text>>]
                    /\ (\E i \in 2..(n - 1) : msgs[i] = opening)
                           <=> (~prior /\ Truthy(config.start_phrase))
                    /\ (~prior /\ Truthy(config.start_phrase)) => msgs[2] = opening
                    /\ prior => \E i \in 2..(n - 1) :
                                    msgs[i].role \in {"user", "assistant"} ]_vars

====
